---------------------------- MODULE Spec2Model ----------------------------
(***************************************************************************)
(* A model of the eukleides package: the polytope regression loop          *)
(* (polytope_regression.polyreg, duplicated in convex.polyreg), the        *)
(* gradient integrators, the hyperplane / linear constraint primitives,    *)
(* the ConvexHull container and optimization.EarlyStopper.                 *)
(*                                                                         *)
(* Numbers.  polyreg works on float64.  Here a float v is the integer      *)
(* floor(v * SCALE) (fixed point, three decimals), or NaN.  Products and   *)
(* quotients round down to the next multiple of 1/SCALE.  float64          *)
(* overflow is kept where the code can reach it: exp(x) is inf above       *)
(* ExpOverflow, and inf/inf is NaN.                                        *)
(***************************************************************************)
EXTENDS Integers, Sequences, FiniteSets, TLC

VARIABLES
    \* ---- polyreg: arguments
    points,          \* hull.points: the list of vertices (each a vector)
    cached_base,     \* hull._base: <<>> is None, <<m>> is the cached matrix m
    target,          \* target
    tol,             \* tol
    max_iter,        \* max_iter
    update_method,   \* update_method.__name__
    \* ---- polyreg: locals
    pc,              \* "loop" (at the head of the for loop) or "done" (returned)
    i,               \* loop counter
    lin_coefs,
    old_lin_coefs,
    loss,
    alpha,
    prev_loss,
    result,          \* the value returned (<<>> before the return)
    event,           \* the last terminal / backoff event sent to the logger
    \* ---- polyreg: history, not read by the program
    alpha_init,      \* the alpha argument as passed by the caller
    evaluated,       \* the losses computed by line 67 so far
    backoff_iter,    \* the first iteration that took the backoff branch, or -1
    \* ---- HyperPlane / LinearConstraint
    cls,             \* the class of the object
    normal,
    constant,
    side,            \* LinearConstraint.side ("" for a bare HyperPlane)
    op,              \* the last method called on the object
    arg,             \* the point it was called with
    ret,             \* what it returned
    \* ---- ConvexHull under reads and mutation
    hull_op,         \* the last thing done to the hull
    base_read,       \* what the last read of hull.base returned (<<>>: none yet)
    num_read,        \* what the last read of hull.num_points returned (-1: none)
    \* ---- EarlyStopper
    max_fails,
    best_objective,  \* <<>> is None, <<x>> is the objective x
    fails,           \* <<>> is None, <<n>> is the count n
    direction,
    stop_op,         \* the last method called on the stopper
    new_objective,   \* the argument of the last stop() (<<>>: none yet)
    stop_ret,        \* what the last stop() returned, or "TypeError"
    \* ---- EarlyStopper: history, not read by the program
    failed_in_a_row, \* stop() calls since start() / the last improvement that
                     \* did not improve on best_objective
    improved,        \* the last stop() improved on best_objective
    started,         \* start() has been called
    calls            \* stop() calls made so far

polyVars == <<target, tol, max_iter, update_method, pc, i, lin_coefs,
              old_lin_coefs, loss, alpha, prev_loss, result, event,
              alpha_init, evaluated, backoff_iter>>
hullVars == <<points, cached_base>>
readVars == <<hull_op, base_read, num_read>>
geomVars == <<cls, normal, constant, side, op, arg, ret>>
stopVars == <<max_fails, best_objective, fails, direction, stop_op,
              new_objective, stop_ret, failed_in_a_row, improved, started,
              calls>>
vars == <<polyVars, hullVars, readVars, geomVars, stopVars>>

---------------------------------------------------------------------------
(* Fixed-point floats with NaN.                                            *)
(*                                                                         *)
(* Python evaluates an argument or a local once and passes its value on.   *)
(* Only({e : x \in {v}}) is that binding: v is evaluated once and e sees   *)
(* its value as x.                                                         *)

Only(S) == CHOOSE x \in S : TRUE

SCALE == 10 * 10 * 10

\* float('nan'): an integer no computation of the model reaches
NaN == -(2 ^ 30)

IsNaN(a) == a = NaN

FAdd(a, b) ==
    Only({IF IsNaN(x) \/ IsNaN(y) THEN NaN ELSE x + y : x \in {a}, y \in {b}})
FSub(a, b) ==
    Only({IF IsNaN(x) \/ IsNaN(y) THEN NaN ELSE x - y : x \in {a}, y \in {b}})
FNeg(a) == Only({IF IsNaN(x) THEN NaN ELSE 0 - x : x \in {a}})

\* floor(a * b / SCALE), computed without the intermediate a * b
FMul(a, b) ==
    Only({IF IsNaN(x) \/ IsNaN(y) THEN NaN
          ELSE (x \div SCALE) * (y \div SCALE) * SCALE
                + (x \div SCALE) * (y % SCALE)
                + (x % SCALE) * (y \div SCALE)
                + ((x % SCALE) * (y % SCALE)) \div SCALE
          : x \in {a}, y \in {b}})

\* floor(a * SCALE / b); 0/0 is NaN.  No other divisor of the model is 0.
FDiv(a, b) ==
    Only({IF IsNaN(x) \/ IsNaN(y) \/ y = 0 THEN NaN ELSE (x * SCALE) \div y
          : x \in {a}, y \in {b}})

\* IEEE comparisons: every comparison with NaN is false
FLt(a, b) == ~IsNaN(a) /\ ~IsNaN(b) /\ a < b
FGt(a, b) == ~IsNaN(a) /\ ~IsNaN(b) /\ a > b
FLe(a, b) == ~IsNaN(a) /\ ~IsNaN(b) /\ a <= b

RECURSIVE FSum(_)
FSum(s) == IF s = <<>> THEN 0 ELSE FAdd(Head(s), FSum(Tail(s)))

RECURSIVE MaxOf(_)
MaxOf(s) ==
    IF Len(s) = 1 THEN s[1]
    ELSE Only({IF s[1] > m THEN s[1] ELSE m : m \in {MaxOf(Tail(s))}})

HasNaN(v) == \E k \in DOMAIN v : IsNaN(v[k])

\* the array <<f[1], ..., f[n]>>
RECURSIVE Array(_, _)
Array(f, n) == IF n = 0 THEN <<>> ELSE Append(Array(f, n - 1), f[n])

VAdd(u, v) ==
    Only({Array([k \in DOMAIN x |-> FAdd(x[k], y[k])], Len(x))
          : x \in {u}, y \in {v}})
VSub(u, v) ==
    Only({Array([k \in DOMAIN x |-> FSub(x[k], y[k])], Len(x))
          : x \in {u}, y \in {v}})
VNeg(v) == Only({Array([k \in DOMAIN x |-> FNeg(x[k])], Len(x)) : x \in {v}})
VScale(c, v) ==
    Only({Array([k \in DOMAIN x |-> FMul(d, x[k])], Len(x))
          : d \in {c}, x \in {v}})
Dot(u, v) ==
    Only({FSum(Array([k \in DOMAIN x |-> FMul(x[k], y[k])], Len(x)))
          : x \in {u}, y \in {v}})

---------------------------------------------------------------------------
(* np.exp on float64.  exp(x) is inf for x > ExpOverflow and 0 for         *)
(* x < ExpUnderflow.  For x <= 0 the value is computed to three decimals:  *)
(* exp(x) = exp(x/8)^8, with the Taylor polynomial of degree 6 (in         *)
(* Horner's form) on [-1, 0].                                              *)

ExpOverflow == 709 * SCALE + 782
ExpUnderflow == 0 - (745 * SCALE + 133)
ExpCut == 8 * SCALE

\* 1 - (z/k) (1 - (z/(k+1)) (... (1 - z/6)))
RECURSIVE ExpTaylor(_, _)
ExpTaylor(z, k) ==
    IF k > 6 THEN SCALE
    ELSE SCALE - FMul(z, ExpTaylor(z, k + 1)) \div k

Square(a) == Only({FMul(x, x) : x \in {a}})

\* exp(-y) for y >= 0
ExpNeg(y) ==
    IF y >= ExpCut THEN 0
    ELSE Square(Square(Square(ExpTaylor(y \div 8, 1))))

\* expo / np.sum(expo)
Normalized(expo) ==
    Only({Array([k \in DOMAIN expo |-> FDiv(expo[k], total)], Len(expo))
          : total \in {FSum(expo)}})

(* softmax(x) = exp(x) / sum(exp(x)).  Without overflow the quotient equals *)
(* exp(x - m) / sum(exp(x - m)) for m = max(x), which is the form evaluated *)
(* here (exp(x) itself does not fit the model's integers).  With an entry   *)
(* above ExpOverflow the sum is inf: inf/inf = NaN for that entry, and      *)
(* finite/inf = 0 for the others.  With every entry below ExpUnderflow the  *)
(* sum is 0: 0/0 = NaN.                                                     *)
softmax(x) ==
    IF x = <<>> THEN <<>>
    ELSE IF HasNaN(x) THEN Array([k \in DOMAIN x |-> NaN], Len(x))
    ELSE Only({
            IF m > ExpOverflow
            THEN Array([k \in DOMAIN x |->
                          IF x[k] > ExpOverflow THEN NaN ELSE 0], Len(x))
            ELSE IF m < ExpUnderflow
            THEN Array([k \in DOMAIN x |-> NaN], Len(x))
            ELSE Only({Normalized(expo)
                       : expo \in {Array([k \in DOMAIN x |-> ExpNeg(m - x[k])],
                                         Len(x))}})
            : m \in {MaxOf(x)}})

---------------------------------------------------------------------------
(* ConvexHull                                                              *)

\* the assertion of ConvexHull.__init__: all points have the shape of the first
SameShape(pts) == \A k \in DOMAIN pts : Len(pts[k]) = Len(pts[1])

\* np.array(points).T: row j holds coordinate j of every point
Transposed(pts) ==
    IF pts = <<>> THEN <<>>
    ELSE Array([j \in 1..Len(pts[1]) |->
                    Array([k \in DOMAIN pts |-> pts[k][j]], Len(pts))],
               Len(pts[1]))

\* the value the property ConvexHull.base returns, and the cache it leaves
base(pts, cache) == IF cache = <<>> THEN Transposed(pts) ELSE cache[1]
BaseCached(pts, cache) == <<base(pts, cache)>>

num_points(pts) == Len(pts)

---------------------------------------------------------------------------
(* The loss and its gradient; b is the value of hull.base.                 *)

\* b @ v for a matrix b (a sequence of rows) and a vector v
MatVec(b, v) ==
    Only({Array([j \in DOMAIN b |-> Dot(b[j], x)], Len(b)) : x \in {v}})

\* v @ b for a vector v and a matrix b with n columns
VecMat(v, b, n) ==
    Only({Array([k \in 1..n |->
                   FSum(Array([j \in DOMAIN m |-> FMul(x[j], m[j][k])], Len(m)))],
                n)
          : x \in {v}, m \in {b}})

get_convex_combination(b, lin_coefs_) ==
    Only({MatVec(b, coefs) : coefs \in {softmax(lin_coefs_)}})

calc_error(b, tgt, lin_coefs_) ==
    Only({VSub(tgt, combo) : combo \in {get_convex_combination(b, lin_coefs_)}})

calc_loss(b, tgt, lin_coefs_) ==
    Only({Dot(err, err) : err \in {calc_error(b, tgt, lin_coefs_)}})

\* np.diag(coefs) - coefs.reshape((-1, 1)) @ coefs.reshape((1, -1))
comb_gradient(lin_coefs_) ==
    Only({Array([r \in DOMAIN coefs |->
                   Array([k \in DOMAIN coefs |->
                            FSub(IF r = k THEN coefs[r] ELSE 0,
                                 FMul(coefs[r], coefs[k]))],
                         Len(coefs))],
                Len(coefs))
          : coefs \in {softmax(lin_coefs_)}})

loss_gradient(b, tgt, lin_coefs_) ==
    VNeg(VecMat(VecMat(calc_error(b, tgt, lin_coefs_), b, Len(lin_coefs_)),
                comb_gradient(lin_coefs_), Len(lin_coefs_)))

---------------------------------------------------------------------------
(* gradient_updates: the integrators                                       *)

Half == SCALE \div 2
Two == 2 * SCALE
Six == 6 * SCALE

\* polyreg's closure inverse_gradient, the gradient_func every integrator is
\* called with; b and tgt are the hull.base and target it closes over
inverse_gradient(b, tgt, x) ==
    Only({VNeg(loss_gradient(b, tgt, value)) : value \in {x}})

euler_update(value, b, tgt, a) == VScale(a, inverse_gradient(b, tgt, value))

improved_euler_update(value, b, tgt, a) ==
    Only({
        Only({VScale(FMul(Half, a), VAdd(first_gradient, second_gradient))
              : second_gradient \in
                  {inverse_gradient(b, tgt,
                        VAdd(value, VScale(a, first_gradient)))}})
        : first_gradient \in {inverse_gradient(b, tgt, value)}})

runge_kutta_update(value, b, tgt, a) ==
    Only({
      Only({
        Only({
          Only({
            VScale(FDiv(a, Six),
                   VAdd(VAdd(VAdd(first_gradient,
                                  VScale(Two, second_gradient)),
                             VScale(Two, third_gradient)),
                        fourth_gradient))
            : fourth_gradient \in
                {inverse_gradient(b, tgt,
                    VAdd(value, VScale(a, third_gradient)))}})
          : third_gradient \in
              {inverse_gradient(b, tgt,
                  VAdd(value, VScale(FMul(Half, a), second_gradient)))}})
        : second_gradient \in
            {inverse_gradient(b, tgt,
                VAdd(value, VScale(FMul(Half, a), first_gradient)))}})
      : first_gradient \in {inverse_gradient(b, tgt, value)}})

UpdateMethods == {"euler_update", "improved_euler_update", "runge_kutta_update"}

\* update_method(lin_coefs, inverse_gradient, alpha=alpha) as polyreg calls it
Increment(method, b, tgt, coefs, a) ==
    CASE method = "euler_update" -> euler_update(coefs, b, tgt, a)
      [] method = "improved_euler_update" ->
            improved_euler_update(coefs, b, tgt, a)
      [] method = "runge_kutta_update" -> runge_kutta_update(coefs, b, tgt, a)

---------------------------------------------------------------------------
(* polyreg                                                                 *)

\* prev_loss = 100000.0
Sentinel == 100000

\* alpha *= 0.9
NineTenths == (9 * SCALE) \div 10
ShrunkByDivision(a) == FDiv(a, NineTenths)
Shrunk(a) == FMul(a, NineTenths)

\* the two tests of the loop body, in the order the code makes them
BranchBackoffFirst(l, t, prev) ==
    IF FGt(l, prev) THEN "backoff"
    ELSE IF FLt(l, t) THEN "converged"
    ELSE "accept"
Branch(l, t, prev) ==
    IF FLt(l, t) THEN "converged"
    ELSE IF FGt(l, prev) THEN "backoff"
    ELSE "accept"

\* lin_coefs after the backoff branch: lin_coefs = old_lin_coefs
NotReverted(old, updated) == updated
Reverted(old, updated) == old

\* return lin_coefs
ReturnedOld(coefs, old) == old
Returned(coefs, old) == coefs

\* one pass through the loop body (lines 67-82), with the return that
\* follows the break
Iterate ==
    /\ pc = "loop"
    /\ i < max_iter
    /\ \E b \in {base(points, cached_base)} :
       \E l \in {calc_loss(b, target, lin_coefs)} :
       \E updated \in
            {VAdd(lin_coefs,
                  Increment(update_method, b, target, lin_coefs, alpha))} :
       \E taken \in {Branch(l, tol, prev_loss)} :
           /\ cached_base' = <<b>>
           /\ loss' = l
           /\ old_lin_coefs' = lin_coefs
           /\ evaluated' = evaluated \cup {l}
           /\ CASE taken = "converged" ->
                    /\ lin_coefs' = updated
                    /\ event' = "converged"
                    /\ pc' = "done"
                    /\ result' = Returned(updated, lin_coefs)
                    /\ UNCHANGED <<i, alpha, prev_loss, backoff_iter>>
                [] taken = "backoff" ->
                    /\ alpha' = Shrunk(alpha)
                    /\ lin_coefs' = Reverted(lin_coefs, updated)
                    /\ event' = "loss increased"
                    /\ i' = i + 1
                    /\ backoff_iter' = IF backoff_iter = -1 THEN i ELSE backoff_iter
                    /\ UNCHANGED <<pc, result, prev_loss>>
                [] taken = "accept" ->
                    /\ prev_loss' = l
                    /\ lin_coefs' = updated
                    /\ i' = i + 1
                    /\ UNCHANGED <<pc, result, event, alpha, backoff_iter>>
    /\ UNCHANGED <<points, target, tol, max_iter, update_method, alpha_init>>
    /\ UNCHANGED <<readVars, geomVars, stopVars>>

\* the else clause of the for loop (lines 83-86): max_iter passes without a break
Exhaust ==
    /\ pc = "loop"
    /\ i = max_iter
    /\ event' = "did not converge"
    /\ pc' = "done"
    /\ result' = Returned(lin_coefs, old_lin_coefs)
    /\ UNCHANGED <<points, cached_base, target, tol, max_iter, update_method,
                   i, lin_coefs, old_lin_coefs, loss, alpha, prev_loss,
                   alpha_init, evaluated, backoff_iter>>
    /\ UNCHANGED <<readVars, geomVars, stopVars>>

(* The calls explored.  Coordinates are in units of 1/SCALE.               *)
MaxIter == 4

Segment == << <<0>>, <<1000>> >>
LongSegment == << <<0>>, <<100000>> >>
Triangle == << <<0, 0>>, <<1000, 0>>, <<0, 1000>> >>

Problems ==
    {[hull |-> Segment, target |-> t] :
        t \in {<<400>>, <<500>>, <<1000>>, <<400000>>}}
    \cup {[hull |-> LongSegment, target |-> <<100000>>]}
    \cup {[hull |-> Triangle, target |-> t] : t \in {<<250, 250>>, <<1000, 0>>}}

Alphas == {1000, 100000}
Tols == {1, 20, 200000000}

\* np.random.normal(size=hull.num_points, scale=0.001)
InitialCoefs(n) == [1..n -> {-1, 0, 1}]

geomIdle ==
    /\ cls = "HyperPlane" /\ normal = <<>> /\ constant = 0 /\ side = ""
    /\ op = "" /\ arg = <<>> /\ ret = <<>>

readIdle == hull_op = "" /\ base_read = <<>> /\ num_read = -1

stopIdle ==
    /\ max_fails = 0 /\ best_objective = <<>> /\ fails = <<>>
    /\ direction = "" /\ stop_op = "" /\ new_objective = <<>>
    /\ stop_ret = "" /\ failed_in_a_row = 0 /\ improved = FALSE
    /\ started = FALSE /\ calls = 0

polyIdle ==
    /\ target = <<>> /\ tol = 0 /\ max_iter = 0 /\ update_method = ""
    /\ pc = "idle" /\ i = 0 /\ lin_coefs = <<>> /\ old_lin_coefs = <<>>
    /\ loss = 0 /\ alpha = 0 /\ prev_loss = 0 /\ result = <<>> /\ event = ""
    /\ alpha_init = 0 /\ evaluated = {} /\ backoff_iter = -1

\* polyreg called, after lines 62-65
Init ==
    /\ \E p \in Problems :
        /\ points = p.hull
        /\ target = p.target
        /\ lin_coefs \in InitialCoefs(num_points(p.hull))
    /\ cached_base = <<>>
    /\ alpha \in Alphas
    /\ alpha_init = alpha
    /\ tol \in Tols
    /\ max_iter \in 1..MaxIter
    /\ update_method \in UpdateMethods
    /\ prev_loss = Sentinel * SCALE
    /\ pc = "loop"
    /\ i = 0
    /\ old_lin_coefs = <<>>
    /\ loss = 0
    /\ result = <<>>
    /\ event = ""
    /\ evaluated = {}
    /\ backoff_iter = -1
    /\ geomIdle
    /\ readIdle
    /\ stopIdle

Next == Iterate \/ Exhaust

Spec == Init /\ [][Next]_vars

---------------------------------------------------------------------------
(* Claims about polyreg                                                    *)

\* the loss and the updated coefficients of the pass about to run
LossHere == calc_loss(base(points, cached_base), target, lin_coefs)
UpdatedHere ==
    VAdd(lin_coefs,
         Increment(update_method, base(points, cached_base), target,
                   lin_coefs, alpha))
AtLoopBody == pc = "loop" /\ i < max_iter

(* C1: a pass stops the loop exactly when the loss at the coefficients it   *)
(* started with is below tol, whatever prev_loss is; it then leaves alpha   *)
(* and prev_loss alone, does not revert, and returns the start coefficients *)
(* plus that pass's increment.                                              *)
C1_ConvergenceOnPreUpdateLoss ==
    [][AtLoopBody =>
        IF FLt(LossHere, tol)
        THEN /\ pc' = "done"
             /\ event' = "converged"
             /\ loss' = LossHere
             /\ alpha' = alpha
             /\ prev_loss' = prev_loss
             /\ lin_coefs' = UpdatedHere
             /\ result' = UpdatedHere
        ELSE pc' = "loop" /\ event' # "converged"]_vars

\* a run that stopped on a loss that was also above prev_loss, one update
\* ahead of the coefficients whose loss was tested
C1_Witness ==
    /\ pc = "done"
    /\ event = "converged"
    /\ FLt(loss, tol)
    /\ FGt(loss, prev_loss)
    /\ loss = calc_loss(cached_base[1], target, old_lin_coefs)
    /\ result # old_lin_coefs
    /\ alpha = alpha_init

(* C2: a pass that does not converge either backs off (loss > prev_loss:    *)
(* alpha becomes 0.9 * alpha, lin_coefs keeps its start value, prev_loss is *)
(* unchanged) or accepts (prev_loss becomes loss, the update is kept, alpha *)
(* is unchanged); alpha never grows and never exceeds its initial value.    *)
C2_BackoffOrAccept ==
    [][/\ alpha' <= alpha
       /\ alpha' <= alpha_init
       /\ (AtLoopBody /\ ~FLt(LossHere, tol)) =>
            IF FGt(LossHere, prev_loss)
            THEN /\ alpha' = FMul(NineTenths, alpha)
                 /\ lin_coefs' = lin_coefs
                 /\ prev_loss' = prev_loss
            ELSE /\ prev_loss' = LossHere
                 /\ lin_coefs' = UpdatedHere
                 /\ alpha' = alpha]_vars

\* a run with an accepted pass and then two backoffs
C2_Witness ==
    /\ pc = "loop"
    /\ backoff_iter >= 1
    /\ i >= backoff_iter + 2
    /\ alpha < alpha_init
    /\ prev_loss < Sentinel * SCALE

\* a run that ended by exhausting max_iter
Exhausted == pc = "done" /\ event = "did not converge"

(* C3, as claimed: when max_iter is exhausted, the coefficients returned    *)
(* have a loss no greater than any loss evaluated in the loop.              *)
C3_ReturnsBestFound ==
    Exhausted =>
        \A l \in evaluated :
            ~FGt(calc_loss(cached_base[1], target, result), l)

(* C3, amended: when max_iter is exhausted without a loss below tol, the    *)
(* run returns the last lin_coefs computed: the coefficients the last pass  *)
(* started with if that pass backed off, and those coefficients plus the    *)
(* pass's increment if it did not.                                          *)
C3_ReturnsLastComputed ==
    Exhausted =>
        /\ \A l \in evaluated : ~FLt(l, tol)
        /\ result = lin_coefs
        /\ Len(result) = num_points(points)
        /\ IF FGt(loss, prev_loss)
           THEN result = old_lin_coefs
           ELSE result =
                  VAdd(old_lin_coefs,
                       Increment(update_method, cached_base[1], target,
                                 old_lin_coefs, alpha))

\* an exhausted run whose last pass was accepted and moved the coefficients
\* to a loss above one it had evaluated
C3_Witness ==
    /\ Exhausted
    /\ ~FGt(loss, prev_loss)
    /\ result # old_lin_coefs
    /\ \E l \in evaluated : FGt(calc_loss(cached_base[1], target, result), l)

(* C4, as claimed: the first pass (i = 0) never takes the backoff branch.   *)
C4_FirstPassNeverBacksOff == backoff_iter # 0

(* C5, as claimed: prev_loss is only ever overwritten by a loss that is     *)
(* less than or equal to its current value.                                 *)
C5_PrevLossNonIncreasing ==
    [][prev_loss' = prev_loss \/ FLe(prev_loss', prev_loss)]_vars

\* alpha after k backoffs
RECURSIVE ShrunkTimes(_, _)
ShrunkTimes(a, k) ==
    IF k = 0 THEN a ELSE ShrunkTimes(FMul(a, NineTenths), k - 1)

(* C10: once a pass has backed off, every later pass backs off too, with    *)
(* the same lin_coefs, loss and prev_loss; the run never converges, ends by *)
(* exhausting max_iter, and alpha has been multiplied by 0.9 once for each  *)
(* pass from the first backoff on.                                          *)
C10_BackoffIsAbsorbing ==
    /\ [](backoff_iter # -1 =>
            /\ event \in {"loss increased", "did not converge"}
            /\ lin_coefs = old_lin_coefs
            /\ FGt(loss, prev_loss)
            /\ alpha = ShrunkTimes(alpha_init, i - backoff_iter)
            /\ (pc = "done" => i = max_iter /\ result = lin_coefs))
    /\ [][(backoff_iter # -1 /\ pc = "loop") =>
            /\ lin_coefs' = lin_coefs
            /\ prev_loss' = prev_loss
            /\ loss' = loss
            /\ IF i < max_iter
               THEN /\ pc' = "loop"
                    /\ i' = i + 1
                    /\ event' = "loss increased"
                    /\ alpha' = FMul(NineTenths, alpha)
               ELSE /\ pc' = "done"
                    /\ event' = "did not converge"
                    /\ alpha' = alpha]_vars

\* a run that accepted a pass, then backed off at least three times and
\* ended by exhaustion
C10_Witness ==
    /\ Exhausted
    /\ backoff_iter >= 1
    /\ max_iter - backoff_iter >= 3
    /\ alpha < alpha_init

---------------------------------------------------------------------------
(* HyperPlane and LinearConstraint, in exact arithmetic.                   *)
(*                                                                         *)
(* The entries of a normal are integers.  Constants and the coordinates of *)
(* points are integers in units of half the tolerance (5e-9), so that      *)
(* HyperPlane.tol is 2 units.  A point is a record [num, den] standing for *)
(* the vector num / den; an argument has den = 1, a projection has         *)
(* den = dot(normal, normal), and den = 0 is the vector of NaNs that the    *)
(* division by dot(normal, normal) = 0 produces.  Floating-point rounding  *)
(* is not represented.                                                     *)

\* HyperPlane.tol = 1e-8
PlaneTol == 2

Classes == {"HyperPlane", "convex.LinearConstraint", "geometry.LinearConstraint"}

\* what "from eukleides import LinearConstraint" yields (__init__.py line 3)
ExposedLinearConstraint == "convex.LinearConstraint"

Sides == {"eq", "leq", "geq"}

RECURSIVE IntSum(_)
IntSum(s) == IF s = <<>> THEN 0 ELSE Head(s) + IntSum(Tail(s))

\* np.dot of two integer vectors of the same length
IntDot(u, v) == IntSum(Array([k \in DOMAIN u |-> u[k] * v[k]], Len(u)))

Abs(x) == IF x < 0 THEN 0 - x ELSE x

AsPoint(v) == [num |-> v, den |-> 1]
NaNPoint(n) == [num |-> Array([k \in 1..n |-> 0], n), den |-> 0]

\* HyperPlane.contains: abs(np.dot(normal, point) - constant) < tol
HyperPlaneContains(nrm, c, pt) ==
    /\ pt.den > 0
    /\ Abs(IntDot(nrm, pt.num) - c * pt.den) < PlaneTol * pt.den

\* the body geometry.LinearConstraint.contains and convex.LinearConstraint.check
\* share
SideContains(sd, nrm, c, pt) ==
    CASE sd = "eq" -> HyperPlaneContains(nrm, c, pt)
      [] sd = "leq" ->
            pt.den > 0 /\ IntDot(nrm, pt.num) <= (c + PlaneTol) * pt.den
      [] sd = "geq" ->
            pt.den > 0 /\ IntDot(nrm, pt.num) >= (c - PlaneTol) * pt.den

\* obj.contains(point), by the class of obj: convex.LinearConstraint defines
\* no contains and inherits HyperPlane's
contains(k, sd, nrm, c, pt) ==
    IF k = "geometry.LinearConstraint" THEN SideContains(sd, nrm, c, pt)
    ELSE HyperPlaneContains(nrm, c, pt)

\* project, with the sign of the constant as in the docstring's equation
projectPlusConstant(nrm, c, v) ==
    LET den == IntDot(nrm, nrm)
        t == IntDot(v, nrm) + c
    IN  IF den = 0 THEN NaNPoint(Len(v))
        ELSE [num |-> Array([k \in DOMAIN v |-> v[k] * den - t * nrm[k]], Len(v)),
              den |-> den]

\* HyperPlane.project: point - t * normal with
\* t = (dot(point, normal) - constant) / dot(normal, normal)
project(nrm, c, v) ==
    LET den == IntDot(nrm, nrm)
        t == IntDot(v, nrm) - c
    IN  IF den = 0 THEN NaNPoint(Len(v))
        ELSE [num |-> Array([k \in DOMAIN v |-> v[k] * den - t * nrm[k]], Len(v)),
              den |-> den]

MaxCoord == 3
Normals == [1..2 -> -1..1]
Constants == {0, 1, 4}
ArgPoints == [1..2 -> 0..MaxCoord]

\* the points a method may be called with: an argument of the caller, or
\* the projection the previous call returned
Callable == {AsPoint(v) : v \in ArgPoints}
                \cup (IF op = "project" THEN {ret} ELSE {})

CallContains ==
    /\ \E pt \in Callable :
        /\ arg' = pt
        /\ ret' = contains(cls, side, normal, constant, pt)
    /\ op' = "contains"
    /\ UNCHANGED <<cls, normal, constant, side>>
    /\ UNCHANGED <<polyVars, hullVars, readVars, stopVars>>

\* convex.LinearConstraint.check
CallCheck ==
    /\ cls = "convex.LinearConstraint"
    /\ \E pt \in Callable :
        /\ arg' = pt
        /\ ret' = SideContains(side, normal, constant, pt)
    /\ op' = "check"
    /\ UNCHANGED <<cls, normal, constant, side>>
    /\ UNCHANGED <<polyVars, hullVars, readVars, stopVars>>

CallProject ==
    /\ \E v \in ArgPoints :
        /\ arg' = AsPoint(v)
        /\ ret' = project(normal, constant, v)
    /\ op' = "project"
    /\ UNCHANGED <<cls, normal, constant, side>>
    /\ UNCHANGED <<polyVars, hullVars, readVars, stopVars>>

hullIdle == points = <<>> /\ cached_base = <<>>

\* an object of one of the three classes, constructed
InitGeom ==
    /\ cls \in Classes
    /\ normal \in Normals
    /\ constant \in Constants
    /\ side \in (IF cls = "HyperPlane" THEN {""} ELSE Sides)
    /\ op = ""
    /\ arg = <<>>
    /\ ret = <<>>
    /\ polyIdle
    /\ hullIdle
    /\ readIdle
    /\ stopIdle

NextGeom == CallContains \/ CallCheck \/ CallProject

SpecGeom == InitGeom /\ [][NextGeom]_vars

ZeroNormal == \A k \in DOMAIN normal : normal[k] = 0

\* the last call was contains, on a projection onto this object
ContainsOfProjection ==
    /\ op = "contains"
    /\ \E v \in ArgPoints : arg = project(normal, constant, v)

(* C6, as claimed: contains of the LinearConstraint the package exposes     *)
(* depends on side: eq is |dot - constant| < tol, leq is                    *)
(* dot <= constant + tol, geq is dot >= constant - tol.                     *)
C6_ContainsDependsOnSide ==
    (cls = ExposedLinearConstraint /\ op = "contains") =>
        ret = SideContains(side, normal, constant, arg)

---------------------------------------------------------------------------
(* ConvexHull under reads of its properties and changes to hull.points,    *)
(* which is a public attribute holding the caller's list.                  *)

MaxPoints == 3
Vertices == {<<0, 0>>, <<1, 0>>, <<0, 1>>}

\* the lists a caller may pass to ConvexHull(...): lists of vertices, and
\* lists in which one point has another shape
Candidates ==
    {<<>>}
    \cup {<<u>> : u \in Vertices}
    \cup {<<u, v>> : u \in Vertices, v \in Vertices \cup {<<5>>}}

\* the property hull.base is read
ReadBase ==
    /\ base_read' = <<base(points, cached_base)>>
    /\ cached_base' = BaseCached(points, cached_base)
    /\ hull_op' = "base"
    /\ UNCHANGED <<points, num_read>>
    /\ UNCHANGED <<polyVars, geomVars, stopVars>>

\* the property hull.num_points is read
ReadNumPoints ==
    /\ num_read' = num_points(points)
    /\ hull_op' = "num_points"
    /\ UNCHANGED <<points, cached_base, base_read>>
    /\ UNCHANGED <<polyVars, geomVars, stopVars>>

\* hull.points.append(v)
AppendPoint ==
    /\ Len(points) < MaxPoints
    /\ \E v \in Vertices : points' = Append(points, v)
    /\ hull_op' = "append"
    /\ UNCHANGED <<cached_base, base_read, num_read>>
    /\ UNCHANGED <<polyVars, geomVars, stopVars>>

\* hull.points[k] = v
ReplacePoint ==
    /\ \E k \in DOMAIN points, v \in Vertices :
        /\ v # points[k]
        /\ points' = [points EXCEPT ![k] = v]
    /\ hull_op' = "setitem"
    /\ UNCHANGED <<cached_base, base_read, num_read>>
    /\ UNCHANGED <<polyVars, geomVars, stopVars>>

\* hull.points.pop()
PopPoint ==
    /\ points # <<>>
    /\ points' = SubSeq(points, 1, Len(points) - 1)
    /\ hull_op' = "pop"
    /\ UNCHANGED <<cached_base, base_read, num_read>>
    /\ UNCHANGED <<polyVars, geomVars, stopVars>>

\* ConvexHull(pts) returned: the assertion on the shapes passed
InitHull ==
    /\ points \in {pts \in Candidates : SameShape(pts)}
    /\ cached_base = <<>>
    /\ hull_op = "init"
    /\ base_read = <<>>
    /\ num_read = -1
    /\ polyIdle
    /\ geomIdle
    /\ stopIdle

NextHull == ReadBase \/ ReadNumPoints \/ AppendPoint \/ ReplacePoint \/ PopPoint

SpecHull == InitHull /\ [][NextHull]_vars

(* C8, as claimed: every read of base returns the matrix whose column i is  *)
(* the current points[i].                                                   *)
C8_BaseFollowsPoints ==
    hull_op = "base" => base_read = <<Transposed(points)>>

(* C9, as claimed: num_points >= 1 for every hull that construction         *)
(* accepts, at construction and afterwards.                                 *)
C9_AtLeastOnePoint == num_points(points) >= 1

---------------------------------------------------------------------------
(* optimization.EarlyStopper.  Objectives are floats: a few values and NaN. *)

MaxFails == 3
MaxCalls == 5
Directions == {"minimize", "maximize"}
Objectives == {0, 1, 2, NaN}

\* EarlyStopper.is_better, for the two directions __init__ accepts
is_better(dir, new, best) ==
    IF dir = "maximize" THEN FGt(new, best) ELSE FGt(best, new)

\* the test that ends stop(): self.fails + 1 >= self.max_fails
FailsReached(f, mf) == f + 1 >= mf

\* EarlyStopper.start
start ==
    /\ fails' = <<0>>
    /\ stop_op' = "start"
    /\ started' = TRUE
    /\ failed_in_a_row' = 0
    /\ improved' = FALSE
    /\ UNCHANGED <<max_fails, best_objective, direction, new_objective,
                   stop_ret, calls>>
    /\ UNCHANGED <<polyVars, hullVars, readVars, geomVars>>

\* EarlyStopper.reset
reset ==
    /\ fails' = <<0>>
    /\ best_objective' = <<>>
    /\ stop_op' = "reset"
    /\ failed_in_a_row' = 0
    /\ improved' = FALSE
    /\ UNCHANGED <<max_fails, direction, new_objective, stop_ret, started,
                   calls>>
    /\ UNCHANGED <<polyVars, hullVars, readVars, geomVars>>

\* EarlyStopper.stop(x)
stop ==
    /\ calls < MaxCalls
    /\ \E x \in Objectives :
        /\ new_objective' = <<x>>
        /\ CASE best_objective = <<>> ->
                    /\ best_objective' = <<x>>
                    /\ stop_ret' = "False"
                    /\ improved' = FALSE
                    /\ UNCHANGED <<fails, failed_in_a_row>>
             [] best_objective # <<>>
                /\ is_better(direction, x, best_objective[1]) ->
                    /\ best_objective' = <<x>>
                    /\ fails' = <<0>>
                    /\ improved' = TRUE
                    /\ failed_in_a_row' = 0
                    /\ stop_ret' = IF FailsReached(0, max_fails)
                                   THEN "True" ELSE "False"
             [] best_objective # <<>> /\ fails = <<>>
                /\ ~is_better(direction, x, best_objective[1]) ->
                    \* self.fails += 1 with self.fails None
                    /\ stop_ret' = "TypeError"
                    /\ improved' = FALSE
                    /\ UNCHANGED <<best_objective, fails, failed_in_a_row>>
             [] OTHER ->
                    /\ fails' = <<fails[1] + 1>>
                    /\ improved' = FALSE
                    /\ failed_in_a_row' = failed_in_a_row + 1
                    /\ stop_ret' = IF FailsReached(fails[1] + 1, max_fails)
                                   THEN "True" ELSE "False"
                    /\ UNCHANGED best_objective
    /\ stop_op' = "stop"
    /\ calls' = calls + 1
    /\ UNCHANGED <<max_fails, direction, started>>
    /\ UNCHANGED <<polyVars, hullVars, readVars, geomVars>>

\* EarlyStopper(max_fails, direction) returned
InitStopper ==
    /\ max_fails \in 1..MaxFails
    /\ direction \in Directions
    /\ best_objective = <<>>
    /\ fails = <<>>
    /\ stop_op = "init"
    /\ new_objective = <<>>
    /\ stop_ret = ""
    /\ failed_in_a_row = 0
    /\ improved = FALSE
    /\ started = FALSE
    /\ calls = 0
    /\ polyIdle
    /\ hullIdle
    /\ geomIdle
    /\ readIdle

NextStopper == start \/ reset \/ stop

SpecStopper == InitStopper /\ [][NextStopper]_vars

(* C11, as claimed: once start() has been called, a stop() call returns     *)
(* True exactly when max_fails calls in a row have failed to improve on     *)
(* best_objective and False before that; a call that improves on            *)
(* best_objective sets fails to 0, replaces best_objective and returns      *)
(* False.                                                                   *)
C11_StopsAfterMaxFails ==
    (started /\ stop_op = "stop") =>
        /\ (stop_ret = "True") <=> (failed_in_a_row >= max_fails)
        /\ improved => /\ fails = <<0>>
                       /\ best_objective = new_objective
                       /\ stop_ret = "False"

=============================================================================
